---- MODULE Spec2Model ----
(***************************************************************************)
(* Model of simplelru.LRU (src/simplelru/simple_lru.go): a fixed size LRU  *)
(* cache with optional per-entry / cache-wide expiration.                  *)
(*                                                                         *)
(* evictList is container/list: position 1 of the sequence is Front(),     *)
(* position Len is Back().  Every list element carries its identity (id),  *)
(* which is what the items map stores (a list.Element pointer).  The clock          *)
(* time.Now() is the variable now; durations and instants are integers.    *)
(* A nil pointer dereference is recorded in panicked; the call that        *)
(* panics is abandoned where it stands and nothing runs afterwards.        *)
(***************************************************************************)
EXTENDS Integers, Sequences, FiniteSets

\* ---------------------------------------------------------------- bounds
MaxKey  == 3      \* keys are 1..MaxKey
MaxVal  == 2      \* values are 1..MaxVal
MaxSize == 3      \* largest size given to the constructor or to Resize
MaxNeg  == 1      \* Resize is given sizes down to -MaxNeg (it does not validate)
MaxTTL  == 1      \* largest duration given to AddEx; NewLRUWithExpire gets up to one more
MaxTime == 2      \* the clock runs from 0 to MaxTime

Nil      == 0     \* nil key / nil value / nil list.Element pointer
NoExpire == -1    \* entry.expire == nil

KeySet   == 1..MaxKey
ValSet   == 1..MaxVal
SizeSet  == (0 - MaxNeg)..MaxSize
TTLSet   == 0..MaxTTL          \* the durations given to AddEx
DefaultSet == 0..(MaxTTL + 1)  \* the durations given to NewLRUWithExpire
ElemIds  == 1..(MaxKey + 1)

VARIABLES
    size,       \* LRU.size
    expire,     \* LRU.expire, the cache-wide duration
    evictList,  \* LRU.evictList, front first
    items,      \* LRU.items: key -> element (Nil when the key is not indexed)
    now,        \* time.Now()
    panicked,   \* a call ended in a runtime panic
    op,         \* the latest call and its arguments
    ret,        \* what the latest call returned
    evicts,     \* the onEvict calls made by the latest call, in order
    pre,        \* the cache as the latest call found it
    looks,      \* how often the latest call read Back() at its LOOP label
    recent,     \* the held keys by latest touch (Put, or Get that found the
                \* key), latest first, each with the value of its latest Put
    balance     \* the Puts that inserted a key minus the onEvict calls, so far

vars == <<size, expire, evictList, items, now, panicked, op, ret, evicts, pre,
          looks, recent, balance>>

\* onEvict is a registered callback that records its calls in evicts
onEvict == TRUE

\* ------------------------------------------------------- container/list
Front(l) == IF Len(l) = 0 THEN Nil ELSE l[1].id
Back(l)  == IF Len(l) = 0 THEN Nil ELSE l[Len(l)].id

\* position of element e in list l (0 when e is not an element of l)
PosOf(l, e) ==
    IF \E i \in 1..Len(l) : l[i].id = e
    THEN CHOOSE i \in 1..Len(l) : l[i].id = e
    ELSE 0

\* Element.Next: the element towards the back, nil after the last one
ElemNext(l, e) ==
    LET p == PosOf(l, e)
    IN  IF p = 0 \/ p = Len(l) THEN Nil ELSE l[p + 1].id

\* Element.Prev: the element towards the front, nil before the first one
ElemPrev(l, e) ==
    LET p == PosOf(l, e)
    IN  IF p <= 1 THEN Nil ELSE l[p - 1].id

DropAt(l, p) == [i \in 1..(Len(l) - 1) |-> IF i < p THEN l[i] ELSE l[i + 1]]

ListRemove(l, e) ==
    LET p == PosOf(l, e) IN IF p = 0 THEN l ELSE DropAt(l, p)

MoveToFront(l, e) ==
    LET p == PosOf(l, e)
    IN  IF p = 0 THEN l ELSE <<l[p]>> \o DropAt(l, p)

\* list.PushFront allocates a new Element.  A pointer is an opaque name that
\* differs from the name of every element of the list; the name used is the
\* key when no element carries it, else the least unused one.
UsedIds(l) == {l[j].id : j \in 1..Len(l)}

NewElemId(l, key) ==
    IF key \notin UsedIds(l) THEN key
    ELSE CHOOSE i \in ElemIds \ UsedIds(l) : \A k \in ElemIds \ UsedIds(l) : i <= k

PushFront(l, ent) ==
    <<[id |-> NewElemId(l, ent.key), key |-> ent.key, value |-> ent.value,
       expire |-> ent.expire]>> \o l

\* ------------------------------------------------------------ entry
\* IsExpired with Before in the place of After: expired from the instant of
\* the expiration on
IsExpired_inclusive(e, t) == IF e.expire = NoExpire THEN FALSE ELSE t >= e.expire

IsExpired(e, t) == IF e.expire = NoExpire THEN FALSE ELSE t > e.expire

\* ------------------------------------------------- the cache as a value
\* c = [size, evictList, items, evicts, panicked]; the operators below are
\* the methods of LRU and return the cache after the call.
Cache == [size |-> size, evictList |-> evictList, items |-> items,
          evicts |-> <<>>, panicked |-> panicked, looks |-> 0]

\* the read of c.evictList.Back() at a LOOP label, counted
Look(c) == [c EXCEPT !.looks = @ + 1]

\* removeElement without the call of onEvict
removeElement_silent(c, e) ==
    IF c.panicked THEN c
    ELSE IF e = Nil THEN [c EXCEPT !.panicked = TRUE]
    ELSE LET kv == c.evictList[PosOf(c.evictList, e)]
         IN  [c EXCEPT !.evictList = ListRemove(c.evictList, e),
                       !.items = [c.items EXCEPT ![kv.key] = Nil]]

\* removeElement with the removal from the list left out
removeElement_keepList(c, e) ==
    IF c.panicked THEN c
    ELSE IF e = Nil THEN [c EXCEPT !.panicked = TRUE]
    ELSE LET kv == c.evictList[PosOf(c.evictList, e)]
         IN  [c EXCEPT !.items = [c.items EXCEPT ![kv.key] = Nil],
                       !.evicts = Append(c.evicts, [key |-> kv.key, value |-> kv.value])]

\* removeElement with the delete from the index left out
removeElement_keepIndex(c, e) ==
    IF c.panicked THEN c
    ELSE IF e = Nil THEN [c EXCEPT !.panicked = TRUE]
    ELSE LET kv == c.evictList[PosOf(c.evictList, e)]
         IN  [c EXCEPT !.evictList = ListRemove(c.evictList, e),
                       !.evicts = Append(c.evicts, [key |-> kv.key, value |-> kv.value])]

removeElement(c, e) ==
    IF c.panicked THEN c
    ELSE IF e = Nil THEN [c EXCEPT !.panicked = TRUE]
    ELSE LET kv == c.evictList[PosOf(c.evictList, e)]
         IN  [c EXCEPT !.evictList = ListRemove(c.evictList, e),
                       !.items = [c.items EXCEPT ![kv.key] = Nil],
                       !.evicts = IF onEvict
                                  THEN Append(c.evicts, [key |-> kv.key, value |-> kv.value])
                                  ELSE c.evicts]

\* removeOldest taking the front of the list instead of the back
removeOldest_front(c) ==
    LET ent == Front(c.evictList)
    IN  IF ent # Nil THEN removeElement(c, ent) ELSE c

removeOldest(c) ==
    LET ent == Back(c.evictList)
    IN  IF ent # Nil THEN removeElement(c, ent) ELSE c

\* ------------------------------------------------------------ results
NoRet == [ok |-> FALSE, key |-> Nil, value |-> Nil, n |-> 0, keys |-> <<>>]

Result(c, r) == [c |-> c, r |-> r]

\* ------------------------------------------------------------ methods
\* Expiration with the cache-wide duration forgotten
Expiration_noDefault(ttl, t) ==
    IF ttl > 0 THEN t + ttl ELSE NoExpire

Expiration(ttl, t) ==
    IF ttl > 0 THEN t + ttl
    ELSE IF expire > 0 THEN t + expire
    ELSE NoExpire

AddEx(c, key, value, ttl, t) ==
    LET ex == Expiration(ttl, t)
    IN  IF c.items[key] # Nil
        THEN LET ent == c.items[key]
                 l1  == MoveToFront(c.evictList, ent)
                 p   == PosOf(l1, ent)
                 l2  == [l1 EXCEPT ![p].value = value, ![p].expire = ex]
             IN  Result([c EXCEPT !.evictList = l2], [NoRet EXCEPT !.ok = FALSE])
        ELSE LET l1    == PushFront(c.evictList, [key |-> key, value |-> value, expire |-> ex])
                 c1    == [c EXCEPT !.evictList = l1,
                                    !.items = [c.items EXCEPT ![key] = Front(l1)]]
                 evict == Len(c1.evictList) > c1.size
             IN  Result(IF evict THEN removeOldest(c1) ELSE c1,
                        [NoRet EXCEPT !.ok = evict])

\* Get without the move to the front
Get_noPromote(c, key, t) ==
    IF c.items[key] # Nil
    THEN LET v == c.evictList[PosOf(c.evictList, c.items[key])]
         IN  IF IsExpired(v, t)
             THEN Result(c, NoRet)
             ELSE Result(c, [NoRet EXCEPT !.ok = TRUE, !.value = v.value])
    ELSE Result(c, NoRet)

\* Get that removes the expired entry it finds
Get_reapExpired(c, key, t) ==
    IF c.items[key] # Nil
    THEN LET ent == c.items[key]
             v   == c.evictList[PosOf(c.evictList, ent)]
         IN  IF t > v.expire /\ v.expire # NoExpire
             THEN Result([c EXCEPT !.evictList = ListRemove(c.evictList, ent),
                                   !.items = [c.items EXCEPT ![key] = Nil]], NoRet)
             ELSE Result([c EXCEPT !.evictList = MoveToFront(c.evictList, ent)],
                         [NoRet EXCEPT !.ok = TRUE, !.value = v.value])
    ELSE Result(c, NoRet)

Get(c, key, t) ==
    IF c.items[key] # Nil
    THEN LET ent == c.items[key]
             v   == c.evictList[PosOf(c.evictList, ent)]
         IN  IF IsExpired(v, t)
             THEN Result(c, NoRet)
             ELSE Result([c EXCEPT !.evictList = MoveToFront(c.evictList, ent)],
                         [NoRet EXCEPT !.ok = TRUE, !.value = v.value])
    ELSE Result(c, NoRet)

\* Contains that only asks the index
Contains_indexed(c, key, t) ==
    Result(c, [NoRet EXCEPT !.ok = (c.items[key] # Nil)])

Contains(c, key, t) ==
    IF c.items[key] # Nil
    THEN LET ent == c.items[key]
         IN  Result(c, [NoRet EXCEPT !.ok = ~IsExpired(c.evictList[PosOf(c.evictList, ent)], t)])
    ELSE Result(c, NoRet)

\* Peek that moves the entry it finds to the front, as Get does
Peek_promote(c, key, t) == Get(c, key, t)

Peek(c, key, t) ==
    IF c.items[key] # Nil
    THEN LET ent == c.items[key]
             v   == c.evictList[PosOf(c.evictList, ent)]
         IN  IF IsExpired(v, t)
             THEN Result(c, NoRet)
             ELSE Result(c, [NoRet EXCEPT !.ok = TRUE, !.value = v.value])
    ELSE Result(c, NoRet)

Remove(c, key) ==
    IF c.items[key] # Nil
    THEN Result(removeElement(c, c.items[key]), [NoRet EXCEPT !.ok = TRUE])
    ELSE Result(c, NoRet)

RECURSIVE RemoveOldest(_, _)
\* RemoveOldest that returns the back entry without looking at its expiration
RemoveOldest_first(c, t) ==
    LET ent == Back(c.evictList)
    IN  IF ent # Nil
        THEN LET kv == c.evictList[PosOf(c.evictList, ent)]
             IN  Result(removeElement(c, ent),
                        [NoRet EXCEPT !.ok = TRUE, !.key = kv.key, !.value = kv.value])
        ELSE Result(c, NoRet)

RemoveOldest(c, t) ==
    LET ent == Back(c.evictList)
    IN  IF ent # Nil
        THEN LET kv == c.evictList[PosOf(c.evictList, ent)]
                 c1 == removeElement(Look(c), ent)
             IN  IF IsExpired(kv, t)
                 THEN RemoveOldest(c1, t)
                 ELSE Result(c1, [NoRet EXCEPT !.ok = TRUE, !.key = kv.key, !.value = kv.value])
        ELSE Result(Look(c), NoRet)

RECURSIVE GetOldest(_, _)
GetOldest(c, t) ==
    LET ent == Back(c.evictList)
    IN  IF ent # Nil
        THEN LET kv == c.evictList[PosOf(c.evictList, ent)]
             IN  IF IsExpired(kv, t)
                 THEN LET c1 == removeElement(Look(c), ElemNext(c.evictList, ent))
                      IN  IF c1.panicked THEN Result(c1, NoRet) ELSE GetOldest(c1, t)
                 ELSE Result(Look(c), [NoRet EXCEPT !.ok = TRUE, !.key = kv.key, !.value = kv.value])
        ELSE Result(Look(c), NoRet)

RECURSIVE KeysFrom(_, _, _)
\* the loop of Keys without the test of the expiration
KeysFrom_all(l, ent, t) ==
    IF ent = Nil THEN <<>>
    ELSE <<l[PosOf(l, ent)].key>> \o KeysFrom(l, ElemPrev(l, ent), t)

KeysFrom(l, ent, t) ==
    IF ent = Nil THEN <<>>
    ELSE LET v == l[PosOf(l, ent)]
         IN  (IF IsExpired(v, t) THEN <<>> ELSE <<v.key>>)
             \o KeysFrom(l, ElemPrev(l, ent), t)

Keys(c, t) == Result(c, [NoRet EXCEPT !.keys = KeysFrom(c.evictList, Back(c.evictList), t)])

LenOf(c) == Len(c.evictList)

RECURSIVE ResizeLoop(_, _, _)
\* the loop of Resize stopping one round early
ResizeLoop_short(c, i, diff) ==
    IF i < diff - 1 THEN ResizeLoop(removeOldest(c), i + 1, diff) ELSE c

ResizeLoop(c, i, diff) ==
    IF i < diff THEN ResizeLoop(removeOldest(c), i + 1, diff) ELSE c

\* Resize that sets the size and evicts nothing
Resize_keep(c, n) ==
    LET d == LenOf(c) - n
    IN  Result([c EXCEPT !.size = n], [NoRet EXCEPT !.n = IF d < 0 THEN 0 ELSE d])

Resize(c, n) ==
    LET d    == LenOf(c) - n
        diff == IF d < 0 THEN 0 ELSE d
        c1   == ResizeLoop(c, 0, diff)
    IN  Result([c1 EXCEPT !.size = n], [NoRet EXCEPT !.n = diff])

\* Purge ranges over the map in an order the runtime picks: order is a
\* sequence holding every indexed key once.
RECURSIVE PurgeLoop(_, _, _)
PurgeLoop(c, order, i) ==
    IF i > Len(order) THEN c
    ELSE LET k == order[i]
             v == c.evictList[PosOf(c.evictList, c.items[k])]
             c1 == [c EXCEPT !.evicts = IF onEvict
                                        THEN Append(c.evicts, [key |-> k, value |-> v.value])
                                        ELSE c.evicts,
                             !.items = [c.items EXCEPT ![k] = Nil]]
         IN  PurgeLoop([c1 EXCEPT !.evictList = c.evictList], order, i + 1)

\* Purge without the reset of the list
Purge_keepList(c, order) == Result(PurgeLoop(c, order, 1), NoRet)

Purge(c, order) ==
    Result([PurgeLoop(c, order, 1) EXCEPT !.evictList = <<>>], NoRet)

Indexed(m) == {k \in KeySet : m[k] # Nil}

MapOrders(m) ==
    {o \in [1..Cardinality(Indexed(m)) -> Indexed(m)] :
        \A i, j \in 1..Cardinality(Indexed(m)) : (i # j) => (o[i] # o[j])}

\* ------------------------------------------------------------ the calls
Call(name, key, value, ttl, n) ==
    [name |-> name, key |-> key, value |-> value, ttl |-> ttl, n |-> n]

\* what a call finds: the cache as it is when the call starts
Observed == [size |-> size, evictList |-> evictList, items |-> items]

\* between two calls: the caller holds no result
Idle == Call("idle", Nil, Nil, 0, 0)

NoObservation == [size |-> 0, evictList |-> <<>>, items |-> [k \in KeySet |-> Nil]]

Ready == op = Idle /\ ~panicked

\* recent after a call: a Put touches its key and gives it its value, a Get
\* that found its key touches it, and the keys handed to onEvict are gone
DropKey(s, k) == SelectSeq(s, LAMBDA e : e.key # k)

Touched(call, res) ==
    LET has == \E i \in 1..Len(recent) : recent[i].key = call.key
        t   == IF call.name = "AddEx"
               THEN <<[key |-> call.key, value |-> call.value]>> \o DropKey(recent, call.key)
               ELSE IF call.name = "Get" /\ res.r.ok /\ has
               THEN SelectSeq(recent, LAMBDA e : e.key = call.key) \o DropKey(recent, call.key)
               ELSE recent
        gone == {res.c.evicts[i].key : i \in 1..Len(res.c.evicts)}
    IN  SelectSeq(t, LAMBDA e : e.key \notin gone)

\* balance after a call
Balanced(call, res) ==
    balance + (IF call.name = "AddEx" /\ items[call.key] = Nil THEN 1 ELSE 0)
            - Len(res.c.evicts)

\* the state after a call that returned res
Done(call, res) ==
    /\ op' = call
    /\ pre' = Observed
    /\ looks' = res.c.looks
    /\ recent' = Touched(call, res)
    /\ balance' = Balanced(call, res)
    /\ size' = res.c.size
    /\ evictList' = res.c.evictList
    /\ items' = res.c.items
    /\ evicts' = res.c.evicts
    /\ panicked' = res.c.panicked
    /\ ret' = res.r
    /\ UNCHANGED <<expire, now>>

\* NewLRUWithExpire with size > 0; size <= 0 returns an error and no cache
Init ==
    /\ size \in 1..MaxSize
    /\ expire \in DefaultSet
    /\ evictList = <<>>
    /\ items = [k \in KeySet |-> Nil]
    /\ now = 0
    /\ panicked = FALSE
    /\ op = Idle
    /\ ret = NoRet
    /\ evicts = <<>>
    /\ pre = NoObservation
    /\ looks = 0
    /\ recent = <<>>
    /\ balance = 0

DoAddEx ==
    /\ Ready
    /\ \E key \in KeySet, value \in ValSet, ttl \in TTLSet :
          Done(Call("AddEx", key, value, ttl, 0), AddEx(Cache, key, value, ttl, now))

DoGet ==
    /\ Ready
    /\ \E key \in KeySet : Done(Call("Get", key, Nil, 0, 0), Get(Cache, key, now))

DoContains ==
    /\ Ready
    /\ \E key \in KeySet : Done(Call("Contains", key, Nil, 0, 0), Contains(Cache, key, now))

DoPeek ==
    /\ Ready
    /\ \E key \in KeySet : Done(Call("Peek", key, Nil, 0, 0), Peek(Cache, key, now))

DoRemove ==
    /\ Ready
    /\ \E key \in KeySet : Done(Call("Remove", key, Nil, 0, 0), Remove(Cache, key))

DoRemoveOldest ==
    /\ Ready
    /\ Done(Call("RemoveOldest", Nil, Nil, 0, 0), RemoveOldest(Cache, now))

DoGetOldest ==
    /\ Ready
    /\ Done(Call("GetOldest", Nil, Nil, 0, 0), GetOldest(Cache, now))

DoKeys ==
    /\ Ready
    /\ Done(Call("Keys", Nil, Nil, 0, 0), Keys(Cache, now))

DoLen ==
    /\ Ready
    /\ Done(Call("Len", Nil, Nil, 0, 0), Result(Cache, [NoRet EXCEPT !.n = LenOf(Cache)]))

DoResize ==
    /\ Ready
    /\ \E n \in SizeSet : Done(Call("Resize", Nil, Nil, 0, n), Resize(Cache, n))

DoPurge ==
    /\ Ready
    /\ \E order \in MapOrders(items) :
          Done(Call("Purge", Nil, Nil, 0, 0), Purge(Cache, order))

\* the wall clock advances between calls
Tick ==
    /\ Ready
    /\ now < MaxTime
    /\ now' = now + 1
    /\ UNCHANGED <<size, expire, evictList, items, panicked, op, ret, evicts, pre,
                   looks, recent, balance>>

\* the caller has taken the result of the latest call; the cache is as the
\* call left it
Return ==
    /\ op # Idle
    /\ ~panicked
    /\ op' = Idle
    /\ ret' = NoRet
    /\ evicts' = <<>>
    /\ pre' = NoObservation
    /\ looks' = 0
    /\ UNCHANGED <<size, expire, evictList, items, now, panicked, recent, balance>>

Next ==
    \/ DoAddEx
    \/ DoGet
    \/ DoContains
    \/ DoPeek
    \/ DoRemove
    \/ DoRemoveOldest
    \/ DoGetOldest
    \/ DoKeys
    \/ DoLen
    \/ DoResize
    \/ DoPurge
    \/ Return
    \/ Tick

Spec == Init /\ [][Next]_vars

\* =================================================================== claims
\* What the properties read off a state: a list as the sequence of its
\* entries (front first), without the elements' identities.
Contents(l) == [i \in 1..Len(l) |-> [key |-> l[i].key, value |-> l[i].value,
                                     expire |-> l[i].expire]]

Pairs(l) == [i \in 1..Len(l) |-> [key |-> l[i].key, value |-> l[i].value]]

Rev(s) == [i \in 1..Len(s) |-> s[Len(s) + 1 - i]]

Without(s, p) == [i \in 1..(Len(s) - 1) |-> IF i < p THEN s[i] ELSE s[i + 1]]

KeyPos(l, k) == CHOOSE i \in 1..Len(l) : l[i].key = k

KeysIn(l) == {l[i].key : i \in 1..Len(l)}

Found(e) == [NoRet EXCEPT !.ok = TRUE, !.key = e.key, !.value = e.value]

\* the entry's expiration has passed (the clock does not move during a call)
Stale(e) == e.expire # NoExpire /\ now > e.expire

\* the number of entries at the back of the list, one after the other, whose
\* expiration has passed
StaleTail(l) ==
    IF \E i \in 1..Len(l) : ~Stale(l[i])
    THEN Len(l) - (CHOOSE i \in 1..Len(l) :
                      ~Stale(l[i]) /\ \A j \in (i + 1)..Len(l) : Stale(l[j]))
    ELSE Len(l)

\* the latest call is a call of the method name, and the state is the one it
\* returned in; pre is the cache it started from
Called(name) == op.name = name

\* the key of the latest call was indexed when the call started
Hit == op.key # Nil /\ pre.items[op.key] # Nil

\* ... and its entry's expiration had passed
StaleHit ==
    Hit /\ \E i \in 1..Len(pre.evictList) :
              pre.evictList[i].key = op.key /\ Stale(pre.evictList[i])

\* the cache is as the latest call found it
Untouched ==
    /\ evictList = pre.evictList
    /\ items = pre.items
    /\ size = pre.size

\* C1: a Put of a key that is not indexed inserts the entry at the front; if
\* the length then exceeds the capacity exactly the back entry is removed,
\* onEvict is called once with its key and value and Put returns true;
\* otherwise nothing is removed, onEvict is not called and Put returns false.
C1_PutNewKey ==
    (Called("AddEx") /\ ~Hit) =>
        LET L == <<[key |-> op.key, value |-> op.value]>> \o Pairs(pre.evictList)
        IN  IF Len(L) > pre.size
            THEN /\ Pairs(evictList) = SubSeq(L, 1, Len(L) - 1)
                 /\ evicts = <<L[Len(L)]>>
                 /\ ret.ok = TRUE
            ELSE /\ Pairs(evictList) = L
                 /\ evicts = <<>>
                 /\ ret.ok = FALSE

\* a Put of a new key into a full cache of capacity >= 2 whose back entry had
\* expired evicted that entry
C1_Witness ==
    /\ Called("AddEx") /\ ~Hit /\ ret.ok
    /\ size >= 2 /\ Len(pre.evictList) = size /\ StaleTail(pre.evictList) >= 1
    /\ evicts = <<Pairs(pre.evictList)[size]>>

\* C2 as stated: Len() <= capacity after every operation, for any capacity
\* given to the constructor (> 0) or to the latest Resize (any integer).
C2_LenAtMostCapacity == Len(evictList) <= size

\* C2 as amended: Len() <= capacity while the capacity is >= 0, and the
\* cache is empty while the capacity is negative.
C2_LenAtMostCapacityOrEmpty ==
    Len(evictList) <= (IF size < 0 THEN 0 ELSE size)

\* a Put after a Resize to a negative capacity
C2_Witness ==
    /\ Called("AddEx") /\ size < 0 /\ Len(evictList) = 0 /\ ret.ok

\* C3: a Put of an indexed key (expired or not) replaces value and expiration
\* in place, moves the entry to the front, returns false, keeps the length
\* and the index, removes nothing and does not call onEvict.
C3_PutExistingKey ==
    (Called("AddEx") /\ Hit) =>
        LET old == Contents(pre.evictList)
            ex  == IF op.ttl > 0 THEN now + op.ttl
                   ELSE IF expire > 0 THEN now + expire ELSE NoExpire
        IN  /\ Contents(evictList) =
                 <<[key |-> op.key, value |-> op.value, expire |-> ex]>>
                 \o Without(old, KeyPos(old, op.key))
            /\ Len(evictList) = Len(pre.evictList)
            /\ items = pre.items
            /\ size = pre.size
            /\ evicts = <<>>
            /\ ret.ok = FALSE

\* an update, with another value, of the expired back entry of a full cache
C3_Witness ==
    /\ Called("AddEx") /\ StaleHit /\ ~ret.ok
    /\ Len(pre.evictList) = size /\ size >= 2
    /\ pre.evictList[size].key = op.key /\ pre.evictList[size].value # op.value

\* C4: GetOldest removes the expired entries at the back one after the other
\* (list and index, onEvict for each) and returns the first back entry that
\* has not expired, which stays at the back; it returns found = false and
\* leaves the cache empty when there is no such entry.
C4_GetOldestReapsExpired ==
    Called("GetOldest") =>
        LET old  == Contents(pre.evictList)
            keep == Len(old) - StaleTail(pre.evictList)
        IN  /\ ~panicked
            /\ Contents(evictList) = SubSeq(old, 1, keep)
            /\ Indexed(items) = KeysIn(SubSeq(old, 1, keep))
            /\ evicts = Rev(SubSeq(Pairs(pre.evictList), keep + 1, Len(old)))
            /\ ret = IF keep = 0 THEN NoRet ELSE Found(old[keep])

\* C5: no call on a constructed cache panics, and an absent key, a redundant
\* Remove and an oldest-query on an empty cache are reported by false.
C5_NoPanic ==
    /\ ~panicked
    /\ (op.name \in {"Get", "Peek", "Contains", "Remove"} /\ ~Hit) => ~ret.ok
    /\ (op.name \in {"RemoveOldest", "GetOldest"} /\ Len(pre.evictList) = 0) => ~ret.ok

\* C6: RemoveOldest removes entries from the back, onEvict for each, until it
\* has removed an entry that has not expired or the cache is empty; it returns
\* that entry, and found = false exactly when every held entry had expired
\* (or there was none); the entries in front of the returned one are untouched.
C6_RemoveOldestSkipsExpired ==
    Called("RemoveOldest") =>
        LET old  == Contents(pre.evictList)
            m    == StaleTail(pre.evictList)
            keep == IF m < Len(old) THEN Len(old) - m - 1 ELSE 0
        IN  /\ Contents(evictList) = SubSeq(old, 1, keep)
            /\ Indexed(items) = KeysIn(SubSeq(old, 1, keep))
            /\ evicts = Rev(SubSeq(Pairs(pre.evictList), keep + 1, Len(old)))
            /\ ret.ok = (m < Len(old))
            /\ ret = IF m < Len(old) THEN Found(old[keep + 1]) ELSE NoRet

\* RemoveOldest removed an expired entry and the entry in front of it, which
\* it returned, and left a third entry alone
C6_Witness ==
    /\ Called("RemoveOldest") /\ ret.ok
    /\ Len(pre.evictList) = 3 /\ StaleTail(pre.evictList) = 1
    /\ Len(evicts) = 2 /\ ret.key = pre.evictList[2].key /\ Len(evictList) = 1

\* C7: Get of a key whose entry has expired, or of a key that is not indexed,
\* returns not-found and changes nothing (no removal, no onEvict, no move);
\* Contains of a key whose entry has expired returns false.
C7_ExpiredStaysUntilRemoved ==
    /\ (Called("Get") /\ (~Hit \/ StaleHit)) =>
          /\ ret = NoRet
          /\ evicts = <<>>
          /\ Untouched
    /\ (Called("Contains") /\ StaleHit) => ~ret.ok

\* a Get of an expired entry that is not at the front
C7_Witness ==
    /\ Called("Get") /\ StaleHit /\ ~ret.ok
    /\ Len(evictList) >= 2 /\ evictList[1].key # op.key
    /\ items[op.key] # Nil

\* C8: Resize(n) returns the number of entries it removed, which is the
\* number of onEvict calls it made, for every integer n.
C8_ResizeReturnsRemoved ==
    Called("Resize") =>
        /\ ret.n = Len(pre.evictList) - Len(evictList)
        /\ ret.n = Len(evicts)

\* C9: Resize(n) with 0 <= n < Len() removes the Len() - n entries at the back,
\* oldest first, with onEvict for each in that order, and keeps the n entries
\* at the front in order; with n >= Len() it removes nothing.  The capacity
\* is n afterwards.
C9_ResizeEvictsOldest ==
    (Called("Resize") /\ op.n >= 0) =>
        LET old == Contents(pre.evictList)
            n   == op.n
        IN  /\ size = n
            /\ IF n < Len(old)
               THEN /\ Contents(evictList) = SubSeq(old, 1, n)
                    /\ Indexed(items) = KeysIn(SubSeq(old, 1, n))
                    /\ evicts = Rev(SubSeq(Pairs(pre.evictList), n + 1, Len(old)))
               ELSE /\ evictList = pre.evictList
                    /\ items = pre.items
                    /\ evicts = <<>>

\* a Resize from three entries, the back one expired, to one entry
C9_Witness ==
    /\ Called("Resize") /\ op.n = 1
    /\ Len(pre.evictList) = 3 /\ StaleTail(pre.evictList) >= 1
    /\ Len(evictList) = 1 /\ Len(evicts) = 2 /\ size = 1

\* C10: Remove of an indexed key removes the entry from the index and from
\* the list, calls onEvict once with the key and its current value (expired
\* or not), returns true and keeps the order of the other entries; Remove of
\* a key that is not indexed returns false and changes nothing.
C10_Remove ==
    Called("Remove") =>
        LET k   == op.key
            old == Contents(pre.evictList)
        IN  IF Hit
            THEN /\ Contents(evictList) = Without(old, KeyPos(old, k))
                 /\ Indexed(items) = Indexed(pre.items) \ {k}
                 /\ evicts = <<[key |-> k, value |-> old[KeyPos(old, k)].value]>>
                 /\ ret.ok = TRUE
            ELSE /\ Untouched
                 /\ evicts = <<>>
                 /\ ret.ok = FALSE

\* a Remove of the expired middle entry of three
C10_Witness ==
    /\ Called("Remove") /\ StaleHit /\ ret.ok
    /\ Len(pre.evictList) = 3 /\ pre.evictList[2].key = op.key
    /\ Len(evictList) = 2 /\ Len(evicts) = 1

\* the keys of the entries of l whose expiration has not passed, front first
FreshKeys(l) ==
    LET fresh == SelectSeq(l, LAMBDA e : ~Stale(e))
    IN  [i \in 1..Len(fresh) |-> fresh[i].key]

\* C12: Keys returns the keys of the held entries that have not expired, each
\* once, from least to most recently used; so its length is <= Len(), with
\* equality exactly when no held entry has expired.
C12_KeysOldestFirst ==
    Called("Keys") =>
        /\ ret.keys = Rev(FreshKeys(pre.evictList))
        /\ \A i, j \in 1..Len(ret.keys) : (i # j) => (ret.keys[i] # ret.keys[j])
        /\ Len(ret.keys) <= Len(evictList)
        /\ (Len(ret.keys) = Len(evictList)) <=>
              (\A i \in 1..Len(evictList) : ~Stale(evictList[i]))

\* Keys on three entries of which the middle one has expired
C12_Witness ==
    /\ Called("Keys") /\ Len(pre.evictList) = 3 /\ Len(ret.keys) = 2
    /\ Stale(pre.evictList[2])
    /\ ret.keys = <<pre.evictList[3].key, pre.evictList[1].key>>

\* C13: Peek, Contains, Keys and Len change nothing: the list with its order,
\* values and expirations, the index and the capacity are as before the
\* call, and onEvict is not called.
C13_ReadOnly ==
    (op.name \in {"Peek", "Contains", "Keys", "Len"}) =>
        /\ Untouched
        /\ evicts = <<>>

\* a Peek that found the back entry of three, behind an expired entry
C13_Witness ==
    /\ Called("Peek") /\ ret.ok /\ Len(evictList) = 3
    /\ evictList[3].key = op.key /\ Stale(evictList[2])

\* C14: Purge calls onEvict once for each held entry, expired or not, with
\* its key and value, and leaves the list and the index empty; on an empty
\* cache it calls onEvict zero times and leaves the cache empty.
C14_Purge ==
    Called("Purge") =>
        /\ Len(evictList) = 0
        /\ Indexed(items) = {}
        /\ Len(evicts) = Len(pre.evictList)
        /\ {evicts[i] : i \in 1..Len(evicts)} =
               {Pairs(pre.evictList)[i] : i \in 1..Len(pre.evictList)}

\* a Purge of three entries, the back one expired
C14_Witness ==
    /\ Called("Purge") /\ Len(pre.evictList) = 3 /\ Stale(pre.evictList[3])
    /\ Len(evicts) = 3 /\ Len(evictList) = 0

\* C17: the keys of the index are the keys of the entries of the list, no key
\* is twice in the list, each handle of the index is the element that carries
\* its key, and index and list have the same size.
C17_IndexMatchesList ==
    /\ Indexed(items) = KeysIn(evictList)
    /\ \A i, j \in 1..Len(evictList) :
          (i # j) => /\ evictList[i].key # evictList[j].key
                     /\ evictList[i].id # evictList[j].id
    /\ \A k \in Indexed(items) :
          \E i \in 1..Len(evictList) :
              evictList[i].id = items[k] /\ evictList[i].key = k
    /\ Cardinality(Indexed(items)) = Len(evictList)

\* the cache after RemoveOldest took two of three entries, one of them expired
C17_Witness ==
    /\ Called("RemoveOldest") /\ Len(pre.evictList) = 3 /\ Len(evictList) = 1
    /\ Indexed(items) = {evictList[1].key}
    /\ items[evictList[1].key] = evictList[1].id

\* C18: while the capacity is <= 0 (after a Resize(n) with n <= 0) the cache
\* is empty; every Put then returns true, the entry evicted is the one that
\* Put inserted (one onEvict call with the Put's key and value), the cache is
\* empty after it and a Get returns not-found.
C18_NonPositiveCapacity ==
    (size <= 0) =>
        /\ Len(evictList) = 0
        /\ Indexed(items) = {}
        /\ Called("AddEx") =>
              /\ ret.ok
              /\ evicts = <<[key |-> op.key, value |-> op.value]>>
        /\ Called("Get") => ~ret.ok

\* a Put into a cache whose capacity is 0
C18_Witness ==
    /\ Called("AddEx") /\ size = 0 /\ pre.size = 0
    /\ ret.ok /\ Len(evicts) = 1 /\ evicts[1].key = op.key
    /\ Len(evictList) = 0

\* C11: Get, Peek and Contains agree with a reference map (recent, read as a
\* map from key to the value of the latest Put): they report found exactly
\* when the key is in the map and its entry has not expired, and Get and Peek
\* then return the value of the map.
C11_AgreesWithReferenceMap ==
    (op.name \in {"Get", "Peek", "Contains"}) =>
        LET k       == op.key
            held    == \E i \in 1..Len(recent) : recent[i].key = k
            expired == \E i \in 1..Len(pre.evictList) :
                          pre.evictList[i].key = k /\ Stale(pre.evictList[i])
        IN  /\ ret.ok = (held /\ ~expired)
            /\ (ret.ok /\ op.name \in {"Get", "Peek"}) =>
                  \E i \in 1..Len(recent) :
                      recent[i].key = k /\ recent[i].value = ret.value

\* a Peek that found the second of two held keys, behind an expired entry
C11_Witness ==
    /\ Called("Peek") /\ ret.ok /\ ret.value = MaxVal
    /\ Len(recent) = 2 /\ recent[2].key = op.key
    /\ Stale(evictList[1])

\* C16: the entries of the list, read from the back to the front, are in the
\* order of their latest touch (a Put of the key, or a Get that found it):
\* the list holds the keys of recent in the order of recent.
C16_RecencyOrder ==
    [i \in 1..Len(evictList) |-> evictList[i].key] =
        [i \in 1..Len(recent) |-> recent[i].key]

\* a Get that found the back entry of three and moved it to the front
C16_Witness ==
    /\ Called("Get") /\ ret.ok /\ Len(pre.evictList) = 3
    /\ pre.evictList[3].key = op.key
    /\ evictList[1].key = op.key /\ recent[1].key = op.key
    /\ evictList[3].key = pre.evictList[2].key

\* the entries a call starts with, as key/value pairs, with the pair a Put
\* brings
PairsBefore ==
    IF Called("AddEx")
    THEN {e \in {Pairs(pre.evictList)[i] : i \in 1..Len(pre.evictList)} : e.key # op.key}
         \cup {[key |-> op.key, value |-> op.value]}
    ELSE {Pairs(pre.evictList)[i] : i \in 1..Len(pre.evictList)}

PairsAfter == {Pairs(evictList)[i] : i \in 1..Len(evictList)}

\* C19: the number of Puts that inserted a key is Len() plus the number of
\* onEvict calls so far; a call hands to onEvict, once each, exactly the
\* entries it removed, with their latest values, and none that stays.
C19_EvictionAccounting ==
    /\ balance = Len(evictList)
    /\ (op # Idle) =>
          /\ PairsAfter \subseteq PairsBefore
          /\ {evicts[i] : i \in 1..Len(evicts)} = PairsBefore \ PairsAfter
          /\ Len(evicts) = Cardinality(PairsBefore \ PairsAfter)

\* a Put into a full cache of two that evicted the back entry
C19_Witness ==
    /\ Called("AddEx") /\ ret.ok /\ Len(evicts) = 1 /\ size = 2
    /\ evicts[1].key # op.key /\ evicts[1].value = MaxVal
    /\ balance = 2 /\ Len(pre.evictList) = 2

\* C20: RemoveOldest and GetOldest return in every reachable state: each pass
\* of the loop removes one entry, so the call returns after at most Len() + 1
\* reads of the back of the list.
C20_OldestLoopsReturn ==
    (op.name \in {"RemoveOldest", "GetOldest"}) =>
        /\ ~panicked
        /\ looks <= Len(pre.evictList) + 1
        /\ Len(pre.evictList) - Len(evictList) >= looks - 1

\* the entry with key k of list l
EntryOf(l, k) == l[KeyPos(l, k)]

\* C15: a Put at time t sets the expiration of its entry to t + ttl when
\* ttl > 0, else to t + the cache-wide duration when that is > 0, else to
\* none; Get, Peek, Contains, Keys, RemoveOldest and GetOldest treat an entry
\* as expired exactly when the time is strictly later than its expiration,
\* and never when it has none.
C15_Expiration ==
    /\ (Called("AddEx") /\ op.key \in KeysIn(evictList)) =>
          EntryOf(evictList, op.key).expire =
              (IF op.ttl > 0 THEN now + op.ttl
               ELSE IF expire > 0 THEN now + expire ELSE NoExpire)
    /\ (op.name \in {"Get", "Peek", "Contains"} /\ Hit) =>
          LET e == EntryOf(pre.evictList, op.key)
          IN  ret.ok = ~(e.expire # NoExpire /\ now > e.expire)
    /\ Called("Keys") =>
          \A i \in 1..Len(pre.evictList) :
              LET e == pre.evictList[i]
              IN  (\E j \in 1..Len(ret.keys) : ret.keys[j] = e.key)
                      = ~(e.expire # NoExpire /\ now > e.expire)
    /\ (Called("RemoveOldest") /\ Len(pre.evictList) > 0) =>
          /\ ret.ok =>
                LET e == EntryOf(pre.evictList, ret.key)
                IN  ~(e.expire # NoExpire /\ now > e.expire)
          /\ \A i \in 1..Len(evicts) :
                LET e == EntryOf(pre.evictList, evicts[i].key)
                IN  (~ret.ok \/ evicts[i].key # ret.key) =>
                        (e.expire # NoExpire /\ now > e.expire)
    /\ (Called("GetOldest") /\ Len(pre.evictList) > 0) =>
          LET e == pre.evictList[Len(pre.evictList)]
          IN  ret.ok = ~(e.expire # NoExpire /\ now > e.expire)

\* a Put with a ttl, shorter than the cache-wide duration, of a key whose
\* entry had no expiration or another one, at a time after 0
C15_Witness ==
    /\ Called("AddEx") /\ Hit /\ now >= 1
    /\ op.ttl > 0 /\ expire > op.ttl
    /\ evictList[1].expire = now + op.ttl
    /\ EntryOf(pre.evictList, op.key).expire # evictList[1].expire

====
